---- MODULE Spec2Model ----
(***************************************************************************)
(* Host-side layer of the stwo GPU backend: the owning handles of device   *)
(* resident field-element arrays (BaseFieldVec, SecureFieldVec) and the    *)
(* two FRI operations built on them (fold_line, decompose).                *)
(*                                                                         *)
(* Widths are scaled so that TLC can enumerate them: the 32-bit count type *)
(* of the kernel boundary is CountBits wide, the field modulus is the      *)
(* Mersenne prime one bit narrower (2^31 - 1 in the program, 2^3 - 1       *)
(* here), and usize is UsizeBits wide.  Every `as u32` is % U32.           *)
(***************************************************************************)
EXTENDS Integers, Sequences, FiniteSets, TLC

VARIABLES
    mem,              \* device memory: pointer p (1..Len(mem)) -> region
    handles,          \* live BaseFieldVec / SecureFieldVec values of the host
    evals,            \* LineEvaluation / SecureEvaluation values of the host
    twiddles,         \* the TwiddleTree handed to fold_line
    overflow_checks,  \* the build: TRUE = arithmetic overflow panics (debug)
    calls,            \* kernel-boundary calls issued by the last operation
    result            \* what the last operation returned to its caller

vars == <<mem, handles, evals, twiddles, overflow_checks, calls, result>>

----------------------------------------------------------------------------
(* Bounds of the model *)

MaxVal == 2        \* evaluation columns start at a value in 0..MaxVal
MaxStart == 0      \* host arrays of the handle specification start in 0..MaxStart
MaxSmall == 1      \* small host lengths 0..MaxSmall
MaxOver == 1       \* host lengths up to MaxOver past a width boundary
MaxHandles == 2    \* live handles at a time
MaxPtrs == 2       \* allocations in one run of the handle specification
MaxFrees == 2      \* free calls counted per region
MaxN == 8          \* evaluation lengths 0..MaxN
MaxEvals == 3      \* evaluations alive in one run of the FRI specification

----------------------------------------------------------------------------
(* Widths and the field *)

CountBits == 4
UsizeBits == 8

U32 == 2^CountBits
USIZE == 2^UsizeBits
P == 2^(CountBits - 1) - 1

Min(a, b) == IF a <= b THEN a ELSE b

\* `x as u32`
AsU32(x) == x % U32

\* M31 arithmetic; operands may be unreduced (from_u32_unchecked), results
\* are reduced.
M31Add(a, b) == (a + b) % P
M31Sub(a, b) == ((a % P) + P - (b % P)) % P
M31Mul(a, b) == (a * b) % P

RECURSIVE M31Pow(_, _)
M31Pow(a, e) == IF e = 0 THEN 1 % P ELSE M31Mul(a, M31Pow(a, e - 1))

\* M31::inverse: a^(P-2); the caller has asserted that a is not zero.
M31Inverse(a) == M31Pow(a, P - 2)

\* CM31 = M31[i]/(i^2 + 1), QM31 = CM31[u]/(u^2 - 2 - i); a QM31 value is
\* the tuple <<a, b, c, d>> = (a + b i) + (c + d i) u.
CM31Add(x, y) == <<M31Add(x[1], y[1]), M31Add(x[2], y[2])>>
CM31Mul(x, y) ==
    <<M31Sub(M31Mul(x[1], y[1]), M31Mul(x[2], y[2])),
      M31Add(M31Mul(x[1], y[2]), M31Mul(x[2], y[1]))>>

QM31Add(x, y) == [j \in 1..4 |-> M31Add(x[j], y[j])]
QM31Sub(x, y) == [j \in 1..4 |-> M31Sub(x[j], y[j])]
QM31MulM31(x, s) == [j \in 1..4 |-> M31Mul(x[j], s)]
QM31Mul(x, y) ==
    LET x0 == <<x[1], x[2]>>
        x1 == <<x[3], x[4]>>
        y0 == <<y[1], y[2]>>
        y1 == <<y[3], y[4]>>
        R  == <<2 % P, 1 % P>>
        c0 == CM31Add(CM31Mul(x0, y0), CM31Mul(R, CM31Mul(x1, y1)))
        c1 == CM31Add(CM31Mul(x0, y1), CM31Mul(x1, y0))
    IN  <<c0[1], c0[2], c1[1], c1[2]>>

QM31Zero == <<0, 0, 0, 0>>

\* usize::ilog2 for n >= 1
RECURSIVE ILog2(_)
ILog2(n) == IF n <= 1 THEN 0 ELSE 1 + ILog2(n \div 2)

IsPowerOfTwo(n) == n >= 1 /\ 2^ILog2(n) = n

----------------------------------------------------------------------------
(* Host data *)

\* a, a+1, a+2, ... as field elements
AffineSeq(a, n) == [i \in 1..n |-> (a + i - 1) % P]

\* the j-th coordinate column (j in 1..4) of the values (4i + j + a), as the
\* tests build them with chunks(4)
ColumnSeq(a, j, n) == [i \in 1..n |-> (a + 4 * (i - 1) + j - 1) % P]

\* SecureField values from consecutive integers, four per element
SecureSeq(a, n) == [i \in 1..n |-> [j \in 1..4 |-> (a + 4 * (i - 1) + j - 1) % P]]

\* Vec<SecureField> seen as *const u32: four consecutive words per element
Flatten(v) == [w \in 1..(4 * Len(v)) |-> v[((w - 1) \div 4) + 1][((w - 1) % 4) + 1]]
Unflatten(words) ==
    [i \in 1..(Len(words) \div 4) |-> [j \in 1..4 |-> words[4 * (i - 1) + j]]]

BaseHostLens == (0..MaxSmall) \cup ((U32 - 1)..(U32 + MaxOver))
SecureHostLens ==
    (0..MaxSmall) \cup (((U32 \div 4) - 1)..((U32 \div 4) + MaxOver)) \cup {U32}

BaseHostArrays == {AffineSeq(a, n) : a \in 0..MaxStart, n \in BaseHostLens}
SecureHostArrays == {SecureSeq(a, n) : a \in 0..MaxStart, n \in SecureHostLens}

\* what an uninitialised or out-of-bounds word may read as
JunkVals == {0, P - 1}

----------------------------------------------------------------------------
(* Kernel call boundary (bindings) *)

Region(data) == [data |-> data, frees |-> 0]

Call(name, args, count, full) ==
    [name |-> name, args |-> args, count |-> count, full |-> full]

Readable(m, ptr) == ptr \in 1..Len(m) /\ m[ptr].frees = 0

\* word i (from 1) at ptr; a freed or out-of-bounds word reads as junk
DeviceWord(m, ptr, i, junk) ==
    IF Readable(m, ptr) /\ i \in 1..Len(m[ptr].data) THEN m[ptr].data[i] ELSE junk

\* copy_uint32_t_vec_from_host_to_device: a new region holding the first
\* `count` words of the host array; its pointer is Len(m) + 1
copy_uint32_t_vec_from_host_to_device(m, words, count) ==
    Append(m, Region(SubSeq(words, 1, Min(count, Len(words)))))

\* copy_uint32_t_vec_from_device_to_host: the `count` words read
copy_uint32_t_vec_from_device_to_host(m, ptr, count, junk) ==
    [i \in 1..count |-> DeviceWord(m, ptr, i, junk)]

\* free_uint32_t_vec
free_uint32_t_vec(m, ptr) == [m EXCEPT ![ptr].frees = @ + 1]

\* a zero-filled region of n words
cuda_alloc_zeroes(m, n) == Append(m, Region([i \in 1..n |-> 0]))

----------------------------------------------------------------------------
(* BaseFieldVec and SecureFieldVec *)

\* the struct { device_ptr, size }
FieldVec(device_ptr, size) == [device_ptr |-> device_ptr, size |-> size]

\* an entry of `handles`: the struct, its type, and the host array it was
\* built from (host = <<>> and from_host = FALSE for a raw constructor)
Handle(kind, v, from_host, host) ==
    [kind |-> kind, v |-> v, from_host |-> from_host, host |-> host]

\* what an operation hands back: op(arg) ended `status`; to_vec's vector is
\* `host`, decompose's coefficient `lambda`, a new handle or evaluation `out`;
\* `alpha` is the challenge fold_line was called with
Result(op, status, arg, host, lambda, out) ==
    [op |-> op, status |-> status, arg |-> arg, host |-> host,
     lambda |-> lambda, out |-> out, alpha |-> QM31Zero]

NoResult == Result("none", "ok", 0, <<>>, QM31Zero, 0)

Remove(s, i) == [k \in 1..(Len(s) - 1) |-> IF k < i THEN s[k] ELSE s[k + 1]]

\* the count BaseFieldVec passes for `len` elements: len as u32
BaseCount(len) == AsU32(len)

\* the count SecureFieldVec passes: 4 * len as u32, a u32 product
SecureProduct(len) == 4 * AsU32(len)
SecureCount(len) == AsU32(SecureProduct(len))
SecureOverflows(len) == SecureProduct(len) >= U32

\* BaseFieldVec::new(host_array)
BaseFieldVec_new(host) ==
    /\ Len(handles) < MaxHandles
    /\ Len(mem) < MaxPtrs
    /\ LET count == BaseCount(Len(host))
           ptr == Len(mem) + 1
       IN  /\ mem' = copy_uint32_t_vec_from_host_to_device(mem, host, count)
           /\ handles' = Append(handles,
                  Handle("base", FieldVec(ptr, Len(host)), TRUE, host))
           /\ calls' = <<Call("copy_to_device", <<ptr>>, count, Len(host))>>
           /\ result' = Result("new", "ok", Len(handles) + 1, <<>>, QM31Zero, 0)
    /\ UNCHANGED <<evals, twiddles, overflow_checks>>

\* BaseFieldVec::new_zeroes(n)
BaseFieldVec_new_zeroes(n) ==
    /\ Len(handles) < MaxHandles
    /\ Len(mem) < MaxPtrs
    /\ mem' = cuda_alloc_zeroes(mem, n)
    /\ handles' = Append(handles,
           Handle("base", FieldVec(Len(mem) + 1, n), FALSE, <<>>))
    /\ calls' = <<Call("alloc_zeroes", <<Len(mem) + 1>>, n, n)>>
    /\ result' = Result("new_zeroes", "ok", Len(handles) + 1, <<>>, QM31Zero, 0)
    /\ UNCHANGED <<evals, twiddles, overflow_checks>>

\* SecureFieldVec::new(device_ptr, size)
SecureFieldVec_new(device_ptr, size) ==
    /\ Len(handles) < MaxHandles
    /\ handles' = Append(handles,
           Handle("secure", FieldVec(device_ptr, size), FALSE, <<>>))
    /\ calls' = <<>>
    /\ result' = Result("secure_new", "ok", Len(handles) + 1, <<>>, QM31Zero, 0)
    /\ UNCHANGED <<mem, evals, twiddles, overflow_checks>>

\* SecureFieldVec::from_vec(host_array)
SecureFieldVec_from_vec(host) ==
    /\ Len(handles) < MaxHandles
    /\ Len(mem) < MaxPtrs
    /\ IF SecureOverflows(Len(host)) /\ overflow_checks
       THEN /\ calls' = <<>>
            /\ result' = Result("from_vec", "panic", 0, <<>>, QM31Zero, 0)
            /\ UNCHANGED <<mem, handles>>
       ELSE LET count == SecureCount(Len(host))
                ptr == Len(mem) + 1
            IN  /\ mem' = copy_uint32_t_vec_from_host_to_device(
                              mem, Flatten(host), count)
                /\ handles' = Append(handles,
                       Handle("secure", FieldVec(ptr, Len(host)), TRUE, host))
                /\ calls' = <<Call("copy_to_device", <<ptr>>, count,
                                   4 * Len(host))>>
                /\ result' = Result("from_vec", "ok", Len(handles) + 1, <<>>,
                                    QM31Zero, 0)
    /\ UNCHANGED <<evals, twiddles, overflow_checks>>

\* #[derive(Clone)]: the struct is copied field by field
Clone(h) ==
    /\ h \in 1..Len(handles)
    /\ Len(handles) < MaxHandles
    /\ handles' = Append(handles, handles[h])
    /\ calls' = <<>>
    /\ result' = Result("clone", "ok", h, <<>>, QM31Zero, Len(handles) + 1)
    /\ UNCHANGED <<mem, evals, twiddles, overflow_checks>>

\* the host vector to_vec returns: `size` words of which the first `count`
\* were written by the copy and the others left uninitialised
HostWords(m, ptr, size, count, junk) ==
    LET copied == copy_uint32_t_vec_from_device_to_host(m, ptr, count, junk)
    IN  [i \in 1..size |-> IF i <= count THEN copied[i] ELSE junk]

\* BaseFieldVec::to_vec(&self)
BaseFieldVec_to_vec(h, junk) ==
    /\ h \in 1..Len(handles)
    /\ handles[h].kind = "base"
    /\ LET v == handles[h].v
           count == BaseCount(v.size)
       IN  /\ calls' = <<Call("copy_to_host", <<v.device_ptr>>, count, v.size)>>
           /\ result' = Result("to_vec", "ok", h,
                  HostWords(mem, v.device_ptr, v.size, Min(count, v.size), junk),
                  QM31Zero, 0)
    /\ UNCHANGED <<mem, handles, evals, twiddles, overflow_checks>>

\* SecureFieldVec::to_vec(&self)
SecureFieldVec_to_vec(h, junk) ==
    /\ h \in 1..Len(handles)
    /\ handles[h].kind = "secure"
    /\ LET v == handles[h].v
       IN  IF SecureOverflows(v.size) /\ overflow_checks
           THEN /\ calls' = <<>>
                /\ result' = Result("to_vec", "panic", h, <<>>, QM31Zero, 0)
           ELSE LET count == SecureCount(v.size)
                IN  /\ calls' = <<Call("copy_to_host", <<v.device_ptr>>, count,
                                       4 * v.size)>>
                    /\ result' = Result("to_vec", "ok", h,
                           Unflatten(HostWords(mem, v.device_ptr, 4 * v.size,
                                               Min(count, 4 * v.size), junk)),
                           QM31Zero, 0)
    /\ UNCHANGED <<mem, handles, evals, twiddles, overflow_checks>>

\* impl Drop: the handle goes out of scope
Drop(h) ==
    /\ h \in 1..Len(handles)
    /\ mem[handles[h].v.device_ptr].frees < MaxFrees
    /\ mem' = free_uint32_t_vec(mem, handles[h].v.device_ptr)
    /\ handles' = Remove(handles, h)
    /\ calls' = <<Call("free", <<handles[h].v.device_ptr>>, 0, 0)>>
    /\ result' = Result("drop", "ok", h, <<>>, QM31Zero, 0)
    /\ UNCHANGED <<evals, twiddles, overflow_checks>>

----------------------------------------------------------------------------
(* FRI operations: fold_line and decompose *)

\* LineEvaluation ("line") or SecureEvaluation ("circle"): the domain, the
\* four coordinate columns, and the evaluation decompose derived it from
\* (0: none).  A line domain is the number of times it was doubled.
Evaluation(kind, domain, columns, parent) ==
    [kind |-> kind, domain |-> domain, columns |-> columns, parent |-> parent]

\* eval.len(): the length of the first column
EvalLen(eval) == eval.columns[1].size

\* LineDomain::double
LineDomainDouble(domain) == domain + 1

\* fault: the assertion admits a single element
fold_line_precondition_admits_one(n) == n >= 1

\* assert!(n >= 2, "Evaluation too small")
fold_line_precondition(n) == n >= 2

\* fault: the offset of the layer above, 1 << (remaining_folds + 1)
fold_line_twiddle_offset_layer_above(n, twiddles_size) ==
    twiddles_size - 2^(ILog2(n) + 1)

\* twiddles_size - (1 << remaining_folds), before usize wraps it
fold_line_twiddle_offset(n, twiddles_size) == twiddles_size - 2^ILog2(n)

\* n >> 1
folded_len(n) == n \div 2

\* fault: the second column is a copy of the first handle, not a buffer of
\* its own
alloc_secure_column_on_gpu_as_array_shared(m, n) ==
    LET m1 == cuda_alloc_zeroes(m, n)
        m2 == cuda_alloc_zeroes(m1, n)
        m3 == cuda_alloc_zeroes(m2, n)
        m4 == cuda_alloc_zeroes(m3, n)
    IN  [mem |-> m4,
         columns |-> [j \in 1..4 |->
                         FieldVec(Len(m) + (IF j = 2 THEN 1 ELSE j), n)],
         calls |-> [j \in 1..4 |-> Call("alloc_zeroes", <<Len(m) + j>>, n, n)]]

\* alloc_secure_column_on_gpu_as_array(n): four new_zeroes(n)
alloc_secure_column_on_gpu_as_array(m, n) ==
    LET m1 == cuda_alloc_zeroes(m, n)
        m2 == cuda_alloc_zeroes(m1, n)
        m3 == cuda_alloc_zeroes(m2, n)
        m4 == cuda_alloc_zeroes(m3, n)
    IN  [mem |-> m4,
         columns |-> [j \in 1..4 |-> FieldVec(Len(m) + j, n)],
         calls |-> [j \in 1..4 |-> Call("alloc_zeroes", <<Len(m) + j>>, n, n)]]

\* one folded value: the inverse butterfly of the pair, then f0 + alpha * f1
FoldPair(f_x, f_neg_x, itwiddle, alpha) ==
    LET f0 == QM31Add(f_x, f_neg_x)
        f1 == QM31MulM31(QM31Sub(f_x, f_neg_x), itwiddle)
    IN  QM31Add(f0, QM31Mul(alpha, f1))

\* what a kernel leaves in a region it writes `words` to: words past the
\* region's end, or to a freed region, are not kept
Written(region, words) ==
    IF region.frees > 0 THEN region
    ELSE [region EXCEPT !.data =
             [i \in 1..Len(region.data) |->
                 IF i <= Len(words) THEN words[i] ELSE region.data[i]]]

\* bindings::fold_circle: output i takes the input pair (2i, 2i+1) and the
\* twiddle at twiddle_offset + i
fold_circle(m, gpu_domain, twiddle_offset, n, ins, alpha, outs, junk) ==
    LET val(i) == [j \in 1..4 |-> DeviceWord(m, ins[j], i, junk)]
        itw(i) == DeviceWord(m, gpu_domain, twiddle_offset + i, junk)
        out(i) == FoldPair(val(2 * i - 1), val(2 * i), itw(i), alpha)
        col(j) == [i \in 1..(n \div 2) |-> out(i)[j]]
    IN  [p \in 1..Len(m) |->
            IF \E j \in 1..4 : outs[j] = p
            THEN Written(m[p], col(CHOOSE j \in 1..4 : outs[j] = p))
            ELSE m[p]]

\* fault: the first two input columns are handed over in the wrong order
launch_kernel_for_fold_swapped(m, eval_values, tw, twiddle_offset, folded_values, alpha, n, junk) ==
    LET gpu_domain == tw.itwiddles.device_ptr
        ins == <<eval_values[2].device_ptr, eval_values[1].device_ptr,
                 eval_values[3].device_ptr, eval_values[4].device_ptr>>
        outs == [j \in 1..4 |-> folded_values[j].device_ptr]
    IN  [mem |-> fold_circle(m, gpu_domain, twiddle_offset, n, ins, alpha,
                             outs, junk),
         call |-> Call("fold_circle",
                       <<gpu_domain, twiddle_offset, n>> \o ins \o alpha \o outs,
                       n, n)]

\* launch_kernel_for_fold
launch_kernel_for_fold(m, eval_values, tw, twiddle_offset, folded_values, alpha, n, junk) ==
    LET gpu_domain == tw.itwiddles.device_ptr
        ins == [j \in 1..4 |-> eval_values[j].device_ptr]
        outs == [j \in 1..4 |-> folded_values[j].device_ptr]
    IN  [mem |-> fold_circle(m, gpu_domain, twiddle_offset, n, ins, alpha,
                             outs, junk),
         call |-> Call("fold_circle",
                       <<gpu_domain, twiddle_offset, n>> \o ins \o alpha \o outs,
                       n, n)]

\* CudaBackend::fold_line(eval, alpha, twiddles)
fold_line(e, alpha, junk) ==
    /\ e \in 1..Len(evals)
    /\ evals[e].kind = "line"
    /\ Len(evals) < MaxEvals
    /\ LET eval == evals[e]
           n == EvalLen(eval)
           diff == fold_line_twiddle_offset(n, twiddles.itwiddles.size)
           panic == /\ calls' = <<>>
                    /\ result' = [Result("fold_line", "panic", e, <<>>,
                                         QM31Zero, 0) EXCEPT !.alpha = alpha]
                    /\ UNCHANGED <<mem, evals>>
       IN  IF ~fold_line_precondition(n) THEN panic
           ELSE IF diff < 0 /\ overflow_checks THEN panic
           ELSE LET twiddle_offset == diff % USIZE
                    alloc == alloc_secure_column_on_gpu_as_array(
                                 mem, folded_len(n))
                    launched == launch_kernel_for_fold(
                                    alloc.mem, eval.columns, twiddles,
                                    twiddle_offset, alloc.columns, alpha, n,
                                    junk)
                IN  /\ mem' = launched.mem
                    /\ evals' = Append(evals,
                           Evaluation("line", LineDomainDouble(eval.domain),
                                      alloc.columns, 0))
                    /\ calls' = Append(alloc.calls, launched.call)
                    /\ result' = [Result("fold_line", "ok", e, <<>>, QM31Zero,
                                         Len(evals) + 1) EXCEPT !.alpha = alpha]
    /\ UNCHANGED <<handles, twiddles, overflow_checks>>

RECURSIVE SumWords(_, _, _, _)
SumWords(m, ptr, count, junk) ==
    IF count = 0 THEN 0
    ELSE M31Add(SumWords(m, ptr, count - 1, junk), DeviceWord(m, ptr, count, junk))

\* bindings::sum: the sum of the first `count` words
bindings_sum(m, ptr, count, junk) == SumWords(m, ptr, count, junk)

\* CudaBackend::sum(column)
sum(m, column, junk) ==
    [value |-> bindings_sum(m, column.device_ptr, AsU32(column.size), junk),
     call |-> Call("sum", <<column.device_ptr>>, AsU32(column.size), column.size)]

\* bindings::compute_g_values: a new region with f[i] - lambda
bindings_compute_g_values(m, ptr, size, lambda, junk) ==
    Append(m, Region([i \in 1..size |-> M31Sub(DeviceWord(m, ptr, i, junk), lambda)]))

\* CudaBackend::compute_g_values(f_values, lambda)
compute_g_values(m, f_values, lambda, junk) ==
    [mem |-> bindings_compute_g_values(m, f_values.device_ptr, f_values.size,
                                       lambda, junk),
     vec |-> FieldVec(Len(m) + 1, f_values.size),
     call |-> Call("compute_g_values", <<f_values.device_ptr, lambda>>,
                   f_values.size, f_values.size)]

\* the divisor M31::from_u32_unchecked(eval.len() as u32)
decompose_divisor(len) == AsU32(len)

\* fault: the sums are multiplied by the divisor, not by its inverse
decompose_lambda_times_n(sums, len) == QM31MulM31(sums, decompose_divisor(len))

\* SecureField::from_m31(a, b, c, d) / divisor: each coordinate times the
\* inverse of the divisor
decompose_lambda(sums, len) == QM31MulM31(sums, M31Inverse(decompose_divisor(len)))

\* fault: columns 1 and 2 take lambda.1.0 and lambda.0.1
LambdaCoordinate_crossed(lambda, j) ==
    lambda[IF j = 2 THEN 3 ELSE IF j = 3 THEN 2 ELSE j]

\* the coordinate of lambda handed to column j: lambda.0.0, lambda.0.1,
\* lambda.1.0, lambda.1.1
LambdaCoordinate(lambda, j) == lambda[j]

\* CudaBackend::decompose(eval)
decompose(e, junk) ==
    /\ e \in 1..Len(evals)
    /\ evals[e].kind = "circle"
    /\ Len(evals) < MaxEvals
    /\ LET eval == evals[e]
           columns == eval.columns
           sums == [j \in 1..4 |-> sum(mem, columns[j], junk)]
           sum_calls == [j \in 1..4 |-> sums[j].call]
       IN  IF decompose_divisor(EvalLen(eval)) = 0
           THEN \* M31::inverse asserts that the divisor is not zero
                /\ calls' = sum_calls
                /\ result' = Result("decompose", "panic", e, <<>>, QM31Zero, 0)
                /\ UNCHANGED <<mem, evals>>
           ELSE LET lambda == decompose_lambda(
                                  [j \in 1..4 |-> sums[j].value], EvalLen(eval))
                    g1 == compute_g_values(mem, columns[1],
                                           LambdaCoordinate(lambda, 1), junk)
                    g2 == compute_g_values(g1.mem, columns[2],
                                           LambdaCoordinate(lambda, 2), junk)
                    g3 == compute_g_values(g2.mem, columns[3],
                                           LambdaCoordinate(lambda, 3), junk)
                    g4 == compute_g_values(g3.mem, columns[4],
                                           LambdaCoordinate(lambda, 4), junk)
                IN  /\ mem' = g4.mem
                    /\ evals' = Append(evals,
                           Evaluation("circle", eval.domain,
                                      <<g1.vec, g2.vec, g3.vec, g4.vec>>, e))
                    /\ calls' = sum_calls \o <<g1.call, g2.call, g3.call, g4.call>>
                    /\ result' = Result("decompose", "ok", e, <<>>, lambda,
                                        Len(evals) + 1)
    /\ UNCHANGED <<handles, twiddles, overflow_checks>>

NoTwiddles == [itwiddles |-> FieldVec(0, 0)]

Init ==
    /\ mem = <<>>
    /\ handles = <<>>
    /\ evals = <<>>
    /\ twiddles = NoTwiddles
    /\ overflow_checks \in BOOLEAN
    /\ calls = <<>>
    /\ result = NoResult

Next ==
    \/ \E host \in BaseHostArrays : BaseFieldVec_new(host)
    \/ \E n \in 0..MaxSmall : BaseFieldVec_new_zeroes(n)
    \/ \E p \in 1..Len(mem), size \in 0..MaxSmall : SecureFieldVec_new(p, size)
    \/ \E host \in SecureHostArrays : SecureFieldVec_from_vec(host)
    \/ \E h \in 1..MaxHandles : Clone(h)
    \/ \E h \in 1..MaxHandles, junk \in JunkVals : BaseFieldVec_to_vec(h, junk)
    \/ \E h \in 1..MaxHandles, junk \in JunkVals : SecureFieldVec_to_vec(h, junk)
    \/ \E h \in 1..MaxHandles : Drop(h)

Spec == Init /\ [][Next]_vars

----------------------------------------------------------------------------
(* The FRI specification: one evaluation built from host columns, then any
   sequence of fold_line and decompose calls on the evaluations at hand *)

\* the inverse-twiddle table: nonzero field elements
TwiddleSeq(t) == [i \in 1..t |-> (i % (P - 1)) + 1]

\* table sizes tried for an evaluation of length n
TwiddleSizes(n) == {s \in {n - 1, n, 2 * n} : s >= 0}

Alphas == {<<1 % P, 3 % P, 5 % P, 7 % P>>, <<0, 1 % P, 0, 1 % P>>}

EvalKinds == {"line", "circle"}

\* the device memory after BaseFieldVec::from_vec of the four columns (the
\* first two start at a[1], the last two at a[2]) and precompute_twiddles'
\* table of t entries
FriMem(a, n, t) ==
    LET col(j) == ColumnSeq(a[(j + 1) \div 2], j, n)
        m1 == copy_uint32_t_vec_from_host_to_device(<<>>, col(1), BaseCount(n))
        m2 == copy_uint32_t_vec_from_host_to_device(m1, col(2), BaseCount(n))
        m3 == copy_uint32_t_vec_from_host_to_device(m2, col(3), BaseCount(n))
        m4 == copy_uint32_t_vec_from_host_to_device(m3, col(4), BaseCount(n))
    IN  Append(m4, Region(TwiddleSeq(t)))

FriInit ==
    /\ handles = <<>>
    /\ overflow_checks \in BOOLEAN
    /\ calls = <<>>
    /\ result = NoResult
    /\ \E kind \in EvalKinds, n \in 0..MaxN, a \in [1..2 -> 0..MaxVal] :
         \E t \in IF kind = "line" THEN TwiddleSizes(n) ELSE {0} :
            /\ mem = FriMem(a, n, t)
            /\ evals = <<Evaluation(kind, 0, [j \in 1..4 |-> FieldVec(j, n)], 0)>>
            /\ twiddles = [itwiddles |-> FieldVec(5, t)]

FriNext ==
    \/ \E e \in 1..MaxEvals, alpha \in Alphas, junk \in JunkVals :
           fold_line(e, alpha, junk)
    \/ \E e \in 1..MaxEvals, junk \in JunkVals : decompose(e, junk)

SpecFri == FriInit /\ [][FriNext]_vars

----------------------------------------------------------------------------
(* Reference definitions the claims compare the operations with *)

\* the host copy of a column (to_cpu)
ColumnData(m, column) == m[column.device_ptr].data

RECURSIVE RefSum(_)
RefSum(s) == IF s = <<>> THEN 0 ELSE Head(s) + RefSum(Tail(s))

\* the exact modular inverse of n: the field element x with x * n = 1
RefInverse(n) == CHOOSE x \in 0..(P - 1) : (x * n) % P = 1

\* the mean of each coordinate column: its sum times the inverse of n
RefLambda(cols, n) == [j \in 1..4 |-> ((RefSum(cols[j]) % P) * RefInverse(n)) % P]

\* column j with lambda's j-th coordinate subtracted from every element
RefG(cols, n, j) ==
    [i \in 1..n |-> (cols[j][i] + P - RefLambda(cols, n)[j]) % P]

\* the reference fold of n values with the first layer of the line twiddles
\* of a domain of size n, which a table of size t keeps at t - n .. t - n/2:
\* (f0 + f1) + (alpha * itw) * (f0 - f1)
RefFoldLine(cols, n, alpha, table) ==
    LET t == Len(table)
        value(i) == [j \in 1..4 |-> cols[j][i]]
        layer == SubSeq(table, t - n + 1, t - n + (n \div 2))
        out(i) == QM31Add(QM31Add(value(2 * i - 1), value(2 * i)),
                          QM31Mul(QM31MulM31(alpha, layer[i]),
                                  QM31Sub(value(2 * i - 1), value(2 * i))))
    IN  [j \in 1..4 |-> [i \in 1..(n \div 2) |-> out(i)[j]]]

InputPtrs(eval) == {eval.columns[j].device_ptr : j \in 1..4}

----------------------------------------------------------------------------
(* Claims *)

\* C1: every device region obtained from an allocation call is passed to the
\* free call exactly once: never twice, and never zero times once all
\* handles are dropped.
C1_ReleasedExactlyOnce ==
    /\ \A p \in 1..Len(mem) : mem[p].frees <= 1
    /\ handles = <<>> => \A p \in 1..Len(mem) : mem[p].frees = 1

\* C2: ownership is exclusive: no two live handles hold the same device
\* pointer.
C2_ExclusiveOwnership ==
    \A i, j \in 1..Len(handles) :
        i # j => handles[i].v.device_ptr # handles[j].v.device_ptr

\* C5: materialising a handle constructed from a host array v of any length
\* returns v, and the handle's recorded length is v's length.
C5_RoundTrip ==
    (result.op = "to_vec" /\ handles[result.arg].from_host) =>
        /\ result.status = "ok"
        /\ result.host = handles[result.arg].host
        /\ handles[result.arg].v.size = Len(handles[result.arg].host)

\* C7: no kernel call receives an element count that differs from the number
\* of elements the operation is about (a count reduced modulo 2^32); the
\* operation aborts instead.
C7_NoSilentTruncation ==
    \A i \in 1..Len(calls) : calls[i].count = calls[i].full

\* C3: for an evaluation of length n = 2^k below the field modulus, decompose
\* returns the lambda made of the four column sums times the exact modular
\* inverse of n, and four columns of length n with g_j[i] = f_j[i] - lambda_j
\* over the input's domain.
C3_DecomposeMatchesReference ==
    (/\ result.op = "decompose"
     /\ IsPowerOfTwo(EvalLen(evals[result.arg]))
     /\ EvalLen(evals[result.arg]) < P) =>
        /\ result.status = "ok"
        /\ LET f == evals[result.arg]
               g == evals[result.out]
               n == EvalLen(f)
               cols == [j \in 1..4 |-> ColumnData(mem, f.columns[j])]
           IN  /\ result.lambda = RefLambda(cols, n)
               /\ g.kind = "circle"
               /\ g.domain = f.domain
               /\ \A j \in 1..4 :
                      /\ g.columns[j].size = n
                      /\ ColumnData(mem, g.columns[j]) = RefG(cols, n, j)

C3_Witness ==
    /\ result.op = "decompose"
    /\ result.status = "ok"
    /\ EvalLen(evals[result.arg]) = 4
    /\ result.lambda # QM31Zero
    /\ \E j, k \in 1..4 : result.lambda[j] # result.lambda[k]

\* C4: for an evaluation of length n >= 2, n a power of two, and a twiddle
\* table built for its domain, fold_line returns a line evaluation over the
\* doubled domain whose four columns have length n/2 and hold the reference
\* fold of the input pairs (2i, 2i+1) with the twiddle of position i and
\* alpha.
C4_FoldLineMatchesReference ==
    (/\ result.op = "fold_line"
     /\ IsPowerOfTwo(EvalLen(evals[result.arg]))
     /\ EvalLen(evals[result.arg]) >= 2
     /\ twiddles.itwiddles.size >= EvalLen(evals[result.arg])) =>
        /\ result.status = "ok"
        /\ LET f == evals[result.arg]
               g == evals[result.out]
               n == EvalLen(f)
               cols == [j \in 1..4 |-> ColumnData(mem, f.columns[j])]
               ref == RefFoldLine(cols, n, result.alpha,
                                  ColumnData(mem, twiddles.itwiddles))
           IN  /\ g.kind = "line"
               /\ g.domain = LineDomainDouble(f.domain)
               /\ \A j \in 1..4 :
                      /\ g.columns[j].size = n \div 2
                      /\ ColumnData(mem, g.columns[j]) = ref[j]

C4_Witness ==
    /\ result.op = "fold_line"
    /\ result.status = "ok"
    /\ EvalLen(evals[result.arg]) = 4
    /\ twiddles.itwiddles.size = 8
    /\ evals[result.arg].domain = 1
    /\ \E j \in 1..4 : \E i \in 1..2 :
           ColumnData(mem, evals[result.out].columns[j])[i] # 0

\* C6: fold_line on an evaluation of length n < 2 fails and does not
\* proceed: no output, no allocation, no kernel call, every device buffer
\* and every evaluation as before.
C6_FoldLineTooSmallFails ==
    [][(/\ result'.op = "fold_line"
        /\ EvalLen(evals[result'.arg]) < 2) =>
           /\ result'.status = "panic"
           /\ result'.out = 0
           /\ calls' = <<>>
           /\ mem' = mem
           /\ evals' = evals
           /\ twiddles' = twiddles]_vars

C6_Witness ==
    /\ result.op = "fold_line"
    /\ result.status = "panic"
    /\ EvalLen(evals[result.arg]) = 1
    /\ Len(evals) = 2

\* C8: fold_line and decompose leave their inputs unchanged and do not alias
\* them: the four input columns and the twiddle table keep their contents,
\* lengths and pointers and are not freed, and the four returned columns own
\* pointers distinct from every input pointer and from each other.
C8_InputsUntouchedNoAlias ==
    [][(/\ result'.op \in {"fold_line", "decompose"}
        /\ result'.status = "ok") =>
           LET f == evals[result'.arg]
               g == evals'[result'.out]
               kept == InputPtrs(f) \cup {twiddles.itwiddles.device_ptr}
               outs == InputPtrs(g)
           IN  /\ evals'[result'.arg] = f
               /\ twiddles' = twiddles
               /\ \A p \in kept :
                      /\ mem'[p] = mem[p]
                      /\ mem'[p].frees = 0
               /\ Cardinality(outs) = 4
               /\ outs \cap kept = {}
               /\ \A p \in outs : mem'[p].frees = 0]_vars

C8_Witness ==
    /\ Len(evals) = 3
    /\ result.op \in {"fold_line", "decompose"}
    /\ result.status = "ok"
    /\ result.arg = 2
    /\ EvalLen(evals[2]) >= 2

\* C9: decompose of an evaluation that decompose returned (length n = 2^k
\* below the field modulus) yields lambda = 0 and columns equal to its input
\* element for element.
C9_RedecomposeIsZero ==
    (/\ result.op = "decompose"
     /\ evals[result.arg].parent # 0
     /\ IsPowerOfTwo(EvalLen(evals[result.arg]))
     /\ EvalLen(evals[result.arg]) < P) =>
        /\ result.status = "ok"
        /\ result.lambda = QM31Zero
        /\ \A j \in 1..4 :
               ColumnData(mem, evals[result.out].columns[j])
                   = ColumnData(mem, evals[result.arg].columns[j])

C9_Witness ==
    /\ result.op = "decompose"
    /\ result.status = "ok"
    /\ result.arg = 2
    /\ evals[2].parent = 1
    /\ EvalLen(evals[2]) = 4
    /\ \E j \in 1..4 :
           ColumnData(mem, evals[2].columns[j]) # ColumnData(mem, evals[1].columns[j])

\* C10: for n >= 2 and a twiddle table of at least n entries, fold_line
\* allocates its four output buffers of length n/2 and then issues exactly
\* one fold call, with twiddle_offset = table size - 2^floor(log2 n) and the
\* same n for all four columns; 0 <= twiddle_offset and
\* twiddle_offset + 2^floor(log2 n) <= table size.
C10_OneFoldCallWithOffset ==
    (/\ result.op = "fold_line"
     /\ EvalLen(evals[result.arg]) >= 2
     /\ twiddles.itwiddles.size >= EvalLen(evals[result.arg])) =>
        /\ result.status = "ok"
        /\ LET f == evals[result.arg]
               g == evals[result.out]
               n == EvalLen(f)
               t == twiddles.itwiddles.size
               k == ILog2(n)
           IN  /\ Len(calls) = 5
               /\ \A j \in 1..4 :
                      /\ calls[j].name = "alloc_zeroes"
                      /\ calls[j].count = n \div 2
                      /\ calls[j].args = <<g.columns[j].device_ptr>>
               /\ calls[5].name = "fold_circle"
               /\ calls[5].args =
                      <<twiddles.itwiddles.device_ptr, t - 2^k, n>>
                          \o [j \in 1..4 |-> f.columns[j].device_ptr]
                          \o result.alpha
                          \o [j \in 1..4 |-> g.columns[j].device_ptr]
               /\ 0 <= calls[5].args[2]
               /\ calls[5].args[2] + 2^k <= t

C10_Witness ==
    /\ result.op = "fold_line"
    /\ result.status = "ok"
    /\ EvalLen(evals[result.arg]) = 3
    /\ Len(calls) = 5
    /\ calls[5].args[2] = 4

====
